---- MODULE Spec2Model ----
(***************************************************************************)
(* Model of gpu-coordinator.py: the GPUCoordinator monitoring loop, the    *)
(* process classifier and the vLLM service controller, together with the   *)
(* environment they observe (process table, service manager, clock and     *)
(* signals).                                                               *)
(***************************************************************************)
EXTENDS Integers, Sequences, FiniteSets

\* ------------------------------------------------------------------ bounds
\* Horizon of the clock, in seconds.  The clock saturates there.
MaxTime == 20

\* ------------------------------------------------------- program constants
check_interval == 3
grace_period == 8
StopSettle == 3
ClearSettle == 2

\* gpu_process_start_time = None
None == 0 - 1

\* ------------------------------------------------------------- classifier
\* Command-line strings are sequences of one-character strings.
gpu_intensive_processes ==
    { <<"r", "d", "b">>,
      <<"p", "y", "t", "h", "o", "n", " ", "-", "m", " ", "r", "d", "b">>,
      <<"e", "m", "b", "e", "d", "d", "i", "n", "g">>,
      <<"i", "n", "d", "e", "x", "i", "n", "g">>,
      <<"t", "r", "a", "i", "n", "e", "r">>,
      <<"f", "i", "n", "e", "t", "u", "n", "e">> }

gpu_keywords ==
    { <<"e", "m", "b", "e", "d">>,
      <<"i", "n", "d", "e", "x">>,
      <<"b", "u", "i", "l", "d">>,
      <<"t", "r", "a", "i", "n">>,
      <<"f", "i", "n", "e", "t", "u", "n", "e">> }

UpperChars ==
    <<"A", "B", "C", "D", "E", "F", "G", "H", "I", "J", "K", "L", "M",
      "N", "O", "P", "Q", "R", "S", "T", "U", "V", "W", "X", "Y", "Z">>

LowerChars ==
    <<"a", "b", "c", "d", "e", "f", "g", "h", "i", "j", "k", "l", "m",
      "n", "o", "p", "q", "r", "s", "t", "u", "v", "w", "x", "y", "z">>

\* str.lower() on one character
LowerChar(c) ==
    IF \E i \in 1..26 : UpperChars[i] = c
    THEN LowerChars[CHOOSE i \in 1..26 : UpperChars[i] = c]
    ELSE c

\* str.lower()
Lower(s) == [i \in 1..Len(s) |-> LowerChar(s[i])]

\* the Python test  pat in s
Contains(s, pat) ==
    \E i \in 0..(Len(s) - Len(pat)) : SubSeq(s, i + 1, i + Len(pat)) = pat

\* ' '.join(argv)
RECURSIVE Join(_)
Join(argv) ==
    IF Len(argv) = 0 THEN << >>
    ELSE IF Len(argv) = 1 THEN argv[1]
    ELSE argv[1] \o <<" ">> \o Join(Tail(argv))

\* The processes the environment can show to the loop, by pid, with their
\* argv.
Pids == {1, 2, 3}

\* The processes a snapshot handed to the classifier alone can hold.
ClassifierPids == Pids \cup {4}

Argv(p) ==
    CASE p = 1 -> << <<"p", "y", "t", "h", "o", "n">>, <<"-", "m">>,
                     <<"r", "d", "b">>, <<"-", "-", "b", "u", "i", "l", "d">> >>
      [] p = 2 -> << <<"s", "s", "h", "d", ":">>,
                     <<"u", "s", "e", "r", "@", "p", "t", "s", "/", "0">> >>
      [] p = 3 -> << <<".", "/", "R", "E", "B", "U", "I", "L", "D", ".", "s", "h">> >>
      [] OTHER -> << <<"R", "D", "B">>, <<"-", "-", "s", "t", "a", "t", "u", "s">> >>

\* Variant of MatchesCmdline that compares the keywords with the command
\* line as it is.
MatchesCmdline_NoLower(cmdline) ==
    \/ \E pattern \in gpu_intensive_processes : Contains(cmdline, pattern)
    \/ \E keyword \in gpu_keywords : Contains(cmdline, keyword)

\* _is_process_gpu_intensive on a process whose command line can be read
MatchesCmdline(cmdline) ==
    \/ \E pattern \in gpu_intensive_processes : Contains(cmdline, pattern)
    \/ \E keyword \in gpu_keywords : Contains(Lower(cmdline), keyword)

\* The pids whose joined command line matches, computed once.
MatchingPids == {p \in ClassifierPids : MatchesCmdline(Join(Argv(p)))}

\* _is_process_gpu_intensive: a process whose command line cannot be read
\* (NoSuchProcess, AccessDenied) is reported as not GPU-intensive.
IsProcessGpuIntensive(p, unreadable) ==
    IF p \in unreadable THEN FALSE ELSE p \in MatchingPids

\* _get_gpu_intensive_processes over a snapshot of the process table
GetGpuIntensiveProcesses(snapshot, unreadable) ==
    {p \in snapshot : IsProcessGpuIntensive(p, unreadable)}

\* ----------------------------------------------------- service controller
\* Outcome of the status query: it runs, or it cannot be run at all.
QueryOutcomes == {"ok", "error"}

\* Outcome of "sudo systemctl stop|start": exit status 0, a non-zero exit
\* status (CalledProcessError), or another exception out of subprocess.run.
CmdOutcomes == {"ok", "fail", "raise"}

\* Variant of IsVllmRunning that takes a query that cannot be run for an
\* active service.
IsVllmRunning_FailActive(active, q) == q = "error" \/ active

\* _is_vllm_running: return code 0 of "systemctl is-active"; an exception
\* while running the query gives False.
IsVllmRunning(active, q) == q = "ok" /\ active

\* Variant of FlagAfterStop that marks the service as stopped by the
\* coordinator even when the stop command failed.
FlagAfterStop_Always(res, flag) == TRUE

\* _stop_vllm: vllm_was_running after the stop command returned with res
FlagAfterStop(res, flag) == IF res = "ok" THEN TRUE ELSE flag

\* Variant of FlagAfterStart that never clears the flag.
FlagAfterStart_Keep(res, flag) == flag

\* Variant of FlagAfterStart that clears the flag whatever the outcome.
FlagAfterStart_Always(res, flag) == FALSE

\* _start_vllm: vllm_was_running after the start command returned with res
FlagAfterStart(res, flag) == IF res = "ok" THEN FALSE ELSE flag

\* Variant of StartOwed that never finds a start owed.
StartOwed_Never(flag) == FALSE

\* Variant of StartOwed that always finds a start owed.
StartOwed_Always(flag) == TRUE

\* the test  if self.vllm_was_running  that guards every start
StartOwed(flag) == flag

\* Variant of GraceElapsed without a grace period.
GraceElapsed_Immediate(elapsed) == elapsed >= 0

\* Variant of GraceElapsed with a strict comparison.
GraceElapsed_Strict(elapsed) == elapsed > grace_period

\* the test  elapsed >= self.grace_period
GraceElapsed(elapsed) == elapsed >= grace_period

\* Variant of LoopCondition that ignores the cancellation flag.
LoopCondition_Always(r) == TRUE

\* the loop condition  while self.running
LoopCondition(r) == r

\* Variant of EpisodeOpen that never sees an open episode.
EpisodeOpen_Never(start_time) == FALSE

\* Variant of EpisodeOpen that takes every empty tick for the end of an
\* episode.
EpisodeOpen_Always(start_time) == TRUE

\* the test  if self.gpu_process_start_time is not None  of the empty branch
EpisodeOpen(start_time) == start_time # None

\* --------------------------------------------------------------- the state
VARIABLES
    vllm_was_running,        \* self.vllm_was_running
    gpu_process_start_time,  \* self.gpu_process_start_time (None or a time)
    running,                 \* self.running
    pc,                      \* position of run()
    exit_cause,              \* how the while loop was left
    now,                     \* time.time(), in seconds
    svc_active,              \* the service manager's state of vllm.service
    procs,                   \* pids in the process table
    tick,                    \* what the current loop iteration saw and did
    ep_start,                \* time of the first tick of the current run of
                             \* consecutive non-empty classifications
    last_ok,                 \* the last service command that succeeded
    start_failed,            \* some start command did not succeed
    cleanup                  \* what the finally block saw and did

vars == << vllm_was_running, gpu_process_start_time, running, pc, exit_cause,
           now, svc_active, procs, tick, ep_start, last_ok, start_failed,
           cleanup >>

BlankTick ==
    [ class    |-> "none",   \* "empty" or "busy" once classified
      flag0    |-> FALSE,    \* vllm_was_running when the tick began
      open0    |-> FALSE,    \* gpu_process_start_time was set when it began
      elapsed  |-> None,     \* elapsed as computed by the loop
      ep_age   |-> None,     \* time since ep_start when elapsed is computed
      act1     |-> "na",     \* what _is_vllm_running() gives at the loop's test
      act2     |-> "na",     \* _is_vllm_running() inside _stop_vllm
      q1       |-> "na",     \* outcome of the status query made by the loop
      q2       |-> "na",     \* outcome of the status query made by _stop_vllm
      nstop    |-> 0,        \* stop commands issued
      nstart   |-> 0,        \* start commands issued
      res      |-> "none",   \* outcome of the command issued
      cmd_flag |-> FALSE,    \* vllm_was_running when it was issued
      slept    |-> 0,        \* seconds slept by the settle delay
      cmd_after |-> None,    \* settle seconds slept when the command was issued
      after_fail |-> FALSE ] \* the stop command of the previous tick failed

BlankCleanup == [ owed |-> "na", nstart |-> 0, res |-> "none" ]

YesNo(b) == IF b THEN "yes" ELSE "no"

\* time.sleep(d) and the clock
Advance(d) == IF now + d > MaxTime THEN MaxTime ELSE now + d

Init ==
    /\ vllm_was_running = FALSE
    /\ gpu_process_start_time = None
    /\ running = TRUE
    /\ pc = "loop"
    /\ exit_cause = "none"
    /\ now = 0
    /\ svc_active \in BOOLEAN
    /\ procs \in SUBSET Pids
    /\ tick = BlankTick
    /\ ep_start = None
    /\ last_ok = "none"
    /\ start_failed = FALSE
    /\ cleanup = BlankCleanup

\* ------------------------------------------------------------ run(): loop
\* while self.running:
LoopCheck ==
    /\ pc = "loop"
    /\ IF LoopCondition(running)
       THEN /\ pc' = "scan"
            /\ exit_cause' = exit_cause
       ELSE /\ pc' = "cleanup"
            /\ exit_cause' = "cancel"
    /\ tick' = [BlankTick EXCEPT !.after_fail = tick.after_fail]
    /\ UNCHANGED << vllm_was_running, gpu_process_start_time, running, now,
                    svc_active, procs, ep_start, last_ok, start_failed,
                    cleanup >>

\* The classification and the branch on it: on a non-empty result the
\* timestamp of a new episode and the detection log, up to the second
\* reading of the clock; on an empty result up to the settle sleep or the
\* end of the iteration.
Scan ==
    /\ pc = "scan"
    /\ \E unreadable \in SUBSET procs, vanish \in BOOLEAN :
         LET gpu == GetGpuIntensiveProcesses(procs, unreadable)
             t0  == [tick EXCEPT !.flag0 = vllm_was_running,
                                 !.open0 = (gpu_process_start_time # None)]
         IN
         IF gpu # {}
         THEN LET first == (gpu_process_start_time = None)
                  st    == IF first THEN now ELSE gpu_process_start_time
                  eps   == IF ep_start = None THEN now ELSE ep_start
                  t1    == [t0 EXCEPT !.class = "busy"]
              IN
              /\ gpu_process_start_time' = st
              /\ ep_start' = eps
              /\ IF first /\ vanish
                 THEN \* proc.name() raises for a process that is gone
                      /\ pc' = "cleanup"
                      /\ exit_cause' = "exception"
                      /\ tick' = t1
                 ELSE /\ pc' = "grace"
                      /\ exit_cause' = exit_cause
                      /\ tick' = t1
         ELSE /\ ep_start' = None
              /\ exit_cause' = exit_cause
              /\ tick' = [t0 EXCEPT !.class = "empty"]
              /\ IF EpisodeOpen(gpu_process_start_time)
                 THEN /\ gpu_process_start_time' = None
                      /\ pc' = IF StartOwed(vllm_was_running)
                               THEN "settle" ELSE "sleep"
                 ELSE /\ gpu_process_start_time' = gpu_process_start_time
                      /\ pc' = "sleep"
    /\ UNCHANGED << vllm_was_running, running, now, svc_active, procs,
                    last_ok, start_failed, cleanup >>

\* elapsed = time.time() - self.gpu_process_start_time and the test of the
\* grace period and of the service.  The clock is read again here: the
\* calls since the timestamp was taken (proc.name(), the log) took time.
GraceCheck ==
    /\ pc = "grace"
    /\ \E q \in QueryOutcomes :
         LET el  == now - gpu_process_start_time
             act == IsVllmRunning(svc_active, q)
         IN
         /\ tick' = [tick EXCEPT !.elapsed = el,
                                 !.ep_age = now - ep_start,
                                 !.act1 = YesNo(act),
                                 !.q1 = IF GraceElapsed(el) THEN q ELSE "na"]
         /\ pc' = IF GraceElapsed(el) /\ act THEN "stop" ELSE "sleep"
    /\ UNCHANGED << vllm_was_running, gpu_process_start_time, running,
                    exit_cause, now, svc_active, procs, ep_start, last_ok,
                    start_failed, cleanup >>

\* self._stop_vllm()
StopVllm ==
    /\ pc = "stop"
    /\ \E q \in QueryOutcomes, res \in CmdOutcomes :
         IF IsVllmRunning(svc_active, q)
         THEN /\ vllm_was_running' = FlagAfterStop(res, vllm_was_running)
              /\ svc_active' = IF res = "ok" THEN FALSE ELSE svc_active
              /\ now' = IF res = "ok" THEN Advance(StopSettle) ELSE now
              /\ last_ok' = IF res = "ok" THEN "stop" ELSE last_ok
              /\ pc' = IF res = "raise" THEN "cleanup" ELSE "sleep"
              /\ exit_cause' = IF res = "raise" THEN "exception"
                               ELSE exit_cause
              /\ tick' = [tick EXCEPT !.act2 = "yes",
                                      !.q2 = q,
                                      !.nstop = @ + 1,
                                      !.res = res,
                                      !.cmd_flag = vllm_was_running,
                                      !.cmd_after = tick.slept]
         ELSE /\ pc' = "sleep"
              /\ tick' = [tick EXCEPT !.act2 = "no", !.q2 = q]
              /\ UNCHANGED << vllm_was_running, svc_active, now, last_ok,
                              exit_cause >>
    /\ UNCHANGED << gpu_process_start_time, running, procs, ep_start,
                    start_failed, cleanup >>

\* time.sleep(2) before the restart
Settle ==
    /\ pc = "settle"
    /\ now' = Advance(ClearSettle)
    /\ tick' = [tick EXCEPT !.slept = @ + ClearSettle]
    /\ pc' = "start"
    /\ UNCHANGED << vllm_was_running, gpu_process_start_time, running,
                    exit_cause, svc_active, procs, ep_start, last_ok,
                    start_failed, cleanup >>

\* self._start_vllm() called from the loop
StartVllm ==
    /\ pc = "start"
    /\ \E res \in CmdOutcomes :
         IF StartOwed(vllm_was_running)
         THEN /\ vllm_was_running' = FlagAfterStart(res, vllm_was_running)
              /\ svc_active' = IF res = "ok" THEN TRUE ELSE svc_active
              /\ last_ok' = IF res = "ok" THEN "start" ELSE last_ok
              /\ start_failed' = (start_failed \/ res # "ok")
              /\ pc' = IF res = "raise" THEN "cleanup" ELSE "sleep"
              /\ exit_cause' = IF res = "raise" THEN "exception"
                               ELSE exit_cause
              /\ tick' = [tick EXCEPT !.nstart = @ + 1,
                                      !.res = res,
                                      !.cmd_flag = vllm_was_running,
                                      !.cmd_after = tick.slept]
         ELSE /\ pc' = "sleep"
              /\ UNCHANGED << vllm_was_running, svc_active, last_ok,
                              start_failed, exit_cause, tick >>
    /\ UNCHANGED << gpu_process_start_time, running, now, procs, ep_start,
                    cleanup >>

\* time.sleep(self.check_interval)
Sleep ==
    /\ pc = "sleep"
    /\ now' = Advance(check_interval)
    /\ pc' = "loop"
    /\ tick' = [BlankTick EXCEPT
                  !.after_fail = (tick.nstop > 0 /\ tick.res = "fail")]
    /\ UNCHANGED << vllm_was_running, gpu_process_start_time, running,
                    exit_cause, svc_active, procs, ep_start, last_ok,
                    start_failed, cleanup >>

\* finally: restart vLLM if we stopped it
Cleanup ==
    /\ pc = "cleanup"
    /\ \E res \in CmdOutcomes :
         IF StartOwed(vllm_was_running)
         THEN /\ vllm_was_running' = FlagAfterStart(res, vllm_was_running)
              /\ svc_active' = IF res = "ok" THEN TRUE ELSE svc_active
              /\ last_ok' = IF res = "ok" THEN "start" ELSE last_ok
              /\ start_failed' = (start_failed \/ res # "ok")
              /\ cleanup' = [ owed |-> YesNo(vllm_was_running),
                              nstart |-> 1, res |-> res ]
         ELSE /\ cleanup' = [ owed |-> YesNo(vllm_was_running),
                              nstart |-> 0, res |-> "none" ]
              /\ UNCHANGED << vllm_was_running, svc_active, last_ok,
                              start_failed >>
    /\ pc' = "done"
    /\ UNCHANGED << gpu_process_start_time, running, exit_cause, now, procs,
                    tick, ep_start >>

\* ----------------------------------------------------------- environment
\* Variant of HandleSignal that flips the flag instead of clearing it.
HandleSignal_Toggle ==
    /\ pc # "done"
    /\ running' = ~running
    /\ UNCHANGED << vllm_was_running, gpu_process_start_time, pc, exit_cause,
                    now, svc_active, procs, tick, ep_start, last_ok,
                    start_failed, cleanup >>

\* _handle_signal on SIGTERM or SIGINT
HandleSignal ==
    /\ pc # "done"
    /\ running
    /\ running' = FALSE
    /\ UNCHANGED << vllm_was_running, gpu_process_start_time, pc, exit_cause,
                    now, svc_active, procs, tick, ep_start, last_ok,
                    start_failed, cleanup >>

\* processes come and go
ProcChange ==
    /\ pc # "done"
    /\ \E s \in SUBSET Pids : s # procs /\ procs' = s
    /\ UNCHANGED << vllm_was_running, gpu_process_start_time, running, pc,
                    exit_cause, now, svc_active, tick, ep_start, last_ok,
                    start_failed, cleanup >>

\* another actor starts or stops the service
SvcChange ==
    /\ pc # "done"
    /\ svc_active' = ~svc_active
    /\ UNCHANGED << vllm_was_running, gpu_process_start_time, running, pc,
                    exit_cause, now, procs, tick, ep_start, last_ok,
                    start_failed, cleanup >>

\* the calls of an iteration take time
TimePasses ==
    /\ pc # "done"
    /\ now < MaxTime
    /\ now' = now + 1
    /\ UNCHANGED << vllm_was_running, gpu_process_start_time, running, pc,
                    exit_cause, svc_active, procs, tick, ep_start, last_ok,
                    start_failed, cleanup >>

Coordinator ==
    \/ LoopCheck \/ Scan \/ GraceCheck \/ StopVllm
    \/ Settle \/ StartVllm \/ Sleep \/ Cleanup

Environment == HandleSignal \/ ProcChange \/ SvcChange \/ TimePasses

Next == Coordinator \/ Environment

Spec == Init /\ [][Next]_vars

\* The interpreter keeps executing run(): its sleeps and commands return.
LiveSpec == Spec /\ WF_vars(Coordinator)

TypeOK ==
    /\ vllm_was_running \in BOOLEAN
    /\ gpu_process_start_time \in {None} \cup (0..MaxTime)
    /\ running \in BOOLEAN
    /\ pc \in {"loop", "scan", "grace", "stop", "settle", "start", "sleep",
               "cleanup", "done"}
    /\ exit_cause \in {"none", "cancel", "exception"}
    /\ now \in 0..MaxTime
    /\ svc_active \in BOOLEAN
    /\ procs \subseteq Pids

\* ------------------------------------------------- the classifier alone
\* A snapshot of the process table as process_iter finds it.
SnapshotChange ==
    /\ \E s \in SUBSET ClassifierPids : s # procs /\ procs' = s
    /\ UNCHANGED << vllm_was_running, gpu_process_start_time, running, pc,
                    exit_cause, now, svc_active, tick, ep_start, last_ok,
                    start_failed, cleanup >>

\* One call of _get_gpu_intensive_processes on the snapshot; tick keeps
\* the call's inputs and its result.
Classify ==
    /\ \E unreadable \in SUBSET procs :
         tick' = [ snapshot   |-> procs,
                   unreadable |-> unreadable,
                   gpu        |-> GetGpuIntensiveProcesses(procs, unreadable) ]
    /\ UNCHANGED << vllm_was_running, gpu_process_start_time, running, pc,
                    exit_cause, now, svc_active, procs, ep_start, last_ok,
                    start_failed, cleanup >>

ClassNext == SnapshotChange \/ Classify

ClassSpec == Init /\ [][ClassNext]_vars

\* ------------------------------------------------------------ properties
\* The current iteration has run to its end: it reached the closing sleep,
\* or an exception left the loop from inside it.
TickOver == pc = "sleep" \/ exit_cause = "exception"

\* No process that matches is in the process table.
NoContention == GetGpuIntensiveProcesses(procs, {}) = {}

\* C1: no double-stop: a stop command is never issued while
\* vllm_was_running is true, whatever the environment does.
NoDoubleStop == tick.nstop > 0 => ~tick.cmd_flag

\* C2: resume owed at exit: once the loop has been left, by the cleared
\* running flag or by an exception, the cleanup issues one start command if
\* vllm_was_running was true at exit and none if it was false.
ResumeOwedAtExit ==
    /\ pc = "cleanup" => cleanup = BlankCleanup
    /\ pc = "done" =>
         /\ cleanup.owed \in {"yes", "no"}
         /\ cleanup.owed = "yes" => cleanup.nstart = 1
         /\ cleanup.owed = "no" => cleanup.nstart = 0

ResumeOwedAtExitWitness ==
    /\ pc = "done"
    /\ exit_cause = "exception"
    /\ cleanup.owed = "yes"
    /\ cleanup.nstart = 1

\* C3: a start that failed is retried on the next empty tick: every tick
\* that classifies empty while vllm_was_running is true issues a start.
StartRetriedOnEmptyTick ==
    (pc = "sleep" /\ tick.class = "empty" /\ tick.flag0) => tick.nstart = 1

\* C4: fail-open tick: an exception raised inside an iteration never ends
\* the loop; only the cleared running flag does.
FailOpenTick == exit_cause # "exception"

\* C5: hysteresis: a stop command is issued only in a tick in which, when
\* the loop reads the clock for its grace test, the current run of
\* consecutive non-empty classifications has lasted at least grace_period
\* since the tick that first observed it, so a run that stays shorter never
\* sees a stop.
Hysteresis ==
    /\ pc = "stop" => tick.ep_age >= grace_period
    /\ tick.nstop > 0 => tick.ep_age >= grace_period

HysteresisWitness ==
    /\ pc = "sleep"
    /\ tick.class = "busy"
    /\ tick.act1 = "yes"
    /\ tick.ep_age > 0
    /\ tick.ep_age < grace_period
    /\ tick.nstop = 0

\* C6: grace-period trigger: a tick that finds contention at least
\* grace_period old when it reads the clock for its grace test, and the
\* service active, calls the stop routine, which
\* issues exactly one stop command unless it finds the service inactive; on
\* success vllm_was_running is true with the episode still open.  A tick
\* earlier than grace_period issues none (5 s: none, 9 s: one).
GracePeriodTrigger ==
    TickOver /\ tick.class = "busy" /\ tick.act1 # "na" =>
        /\ tick.ep_age >= grace_period /\ tick.act1 = "yes" =>
             \/ tick.act2 = "no" /\ tick.nstop = 0
             \/ /\ tick.act2 = "yes"
                /\ tick.nstop = 1
                /\ tick.res = "ok" =>
                     vllm_was_running /\ gpu_process_start_time # None
        /\ tick.ep_age < grace_period => tick.nstop = 0

GracePeriodTriggerWitness ==
    /\ pc = "sleep"
    /\ ep_start = 0
    /\ tick.ep_age = 9
    /\ ~tick.flag0
    /\ tick.nstop = 1
    /\ tick.res = "ok"
    /\ vllm_was_running

\* C7: resume trigger: a tick that classifies empty with vllm_was_running
\* true and an episode open sleeps the settle delay and then issues exactly
\* one start command; on success vllm_was_running is false and
\* gpu_process_start_time is None.
ResumeTrigger ==
    /\ pc = "start" => tick.slept = ClearSettle /\ tick.nstart = 0
    /\ TickOver /\ tick.class = "empty" /\ tick.flag0 /\ tick.open0 =>
         /\ tick.nstart = 1
         /\ tick.nstop = 0
         /\ tick.cmd_after = ClearSettle
         /\ tick.res = "ok" /\ pc = "sleep" =>
              ~vllm_was_running /\ gpu_process_start_time = None

ResumeTriggerWitness ==
    /\ pc = "sleep"
    /\ tick.class = "empty"
    /\ tick.flag0
    /\ tick.open0
    /\ tick.nstart = 1
    /\ tick.res = "ok"
    /\ ~vllm_was_running

\* C8: retry on stop failure: a stop command that exits non-zero leaves
\* vllm_was_running as it was and gpu_process_start_time set, the loop goes
\* on, and the next tick that still sees contention and the service active
\* issues the stop command again.
StopFailureRetried ==
    /\ tick.nstop > 0 /\ tick.res = "fail" =>
         /\ pc = "sleep"
         /\ vllm_was_running = tick.cmd_flag
         /\ ~tick.flag0 => ~vllm_was_running
         /\ gpu_process_start_time # None
    /\ TickOver /\ tick.after_fail /\ tick.class = "busy"
         /\ tick.act1 = "yes" =>
           \/ tick.act2 = "no" /\ tick.nstop = 0
           \/ tick.act2 = "yes" /\ tick.nstop = 1

StopFailureRetriedWitness ==
    /\ pc = "sleep"
    /\ tick.after_fail
    /\ tick.class = "busy"
    /\ ~tick.flag0
    /\ tick.nstop = 1
    /\ tick.res = "fail"
    /\ ~vllm_was_running

\* C9: vllm_was_running is true exactly when the last service command of
\* the coordinator that succeeded was a stop.
SuspensionFlagMeaning == vllm_was_running <=> (last_ok = "stop")

SuspensionFlagMeaningWitness ==
    /\ vllm_was_running
    /\ last_ok = "stop"
    /\ start_failed
    /\ pc = "sleep"
    /\ tick.nstart = 1
    /\ tick.res = "fail"

\* C10: guaranteed resume without exit: from a state with the service
\* suspended and no contention, vllm_was_running becomes false inside the
\* loop, unless contention comes back, a start command does not succeed, a
\* signal arrives or an exception leaves the loop.
GuaranteedResume ==
    (vllm_was_running /\ NoContention)
      ~> \/ ~vllm_was_running /\ pc \notin {"cleanup", "done"}
         \/ ~NoContention
         \/ start_failed
         \/ ~running
         \/ exit_cause = "exception"

GuaranteedResumeWitness ==
    /\ pc = "sleep"
    /\ running
    /\ ~start_failed
    /\ last_ok = "start"
    /\ ~vllm_was_running
    /\ tick.nstart = 1

\* C11: contention timestamp: gpu_process_start_time is set exactly while
\* the most recent classification was non-empty, and it holds the time of
\* the first tick of that run of non-empty classifications: set on the
\* first tick, kept while the run continues, cleared on the first empty
\* tick.
ContentionTimestamp == gpu_process_start_time = ep_start

ContentionTimestampWitness ==
    /\ pc = "sleep"
    /\ tick.class = "busy"
    /\ tick.open0
    /\ tick.elapsed > 0
    /\ gpu_process_start_time = now - tick.elapsed
    /\ gpu_process_start_time # None

\* C12: cooperative cancellation: a signal only clears running and leaves
\* the iteration in flight where it is; with running false no new iteration
\* is started, the next loop-condition check goes to the cleanup, and the
\* run ends.
CooperativeCancellation ==
    /\ [][(running /\ ~running') =>
            /\ pc' = pc
            /\ tick' = tick
            /\ vllm_was_running' = vllm_was_running
            /\ gpu_process_start_time' = gpu_process_start_time]_vars
    /\ [][(~running /\ pc # "scan") => pc' # "scan"]_vars
    /\ [][(~running /\ pc = "loop" /\ pc' # "loop") => pc' = "cleanup"]_vars
    /\ (~running ~> pc = "done")

CooperativeCancellationWitness ==
    /\ pc = "done"
    /\ exit_cause = "cancel"
    /\ ~running
    /\ cleanup.owed = "no"
    /\ last_ok = "start"

\* C13: cancellation flag monotonicity: running starts true, changes only
\* in a step that does nothing else (the signal handler), only from true to
\* false, and once false it stays false.
CancellationFlagMonotonic ==
    /\ running = TRUE
    /\ [][~running => ~running']_vars
    /\ [][running' # running =>
            UNCHANGED << vllm_was_running, gpu_process_start_time, pc,
                         exit_cause, now, svc_active, procs, tick, ep_start,
                         last_ok, start_failed, cleanup >>]_vars

CancellationFlagMonotonicWitness ==
    /\ ~running
    /\ pc = "start"
    /\ tick.slept = ClearSettle

\* A command line holds pat at some position, compared character by
\* character, with or without regard to case.
HoldsAt(cmdline, pat, i, nocase) ==
    /\ i + Len(pat) <= Len(cmdline)
    /\ \A j \in 1..Len(pat) :
         IF nocase
         THEN LowerChar(cmdline[i + j]) = LowerChar(pat[j])
         ELSE cmdline[i + j] = pat[j]

\* The processes of ClassifierPids a classification has to report.
ExclusiveAccessPids ==
    { p \in ClassifierPids :
        LET cmdline == Join(Argv(p)) IN
        \/ \E pat \in gpu_intensive_processes : \E i \in 0..Len(cmdline) :
             HoldsAt(cmdline, pat, i, FALSE)
        \/ \E kw \in gpu_keywords : \E i \in 0..Len(cmdline) :
             HoldsAt(cmdline, kw, i, TRUE) }

\* C14: classifier result: a classification returns exactly the readable
\* processes of the snapshot whose command line holds a literal pattern
\* (case-sensitive) or a keyword (case-insensitive); pid 1, "python -m rdb
\* --build", is included and a snapshot of pid 2 alone, "sshd: user@pts/0",
\* gives the empty set.
ClassifierResult ==
    "gpu" \in DOMAIN tick =>
        /\ tick.gpu = (tick.snapshot \ tick.unreadable) \cap ExclusiveAccessPids
        /\ 1 \in tick.snapshot \ tick.unreadable => 1 \in tick.gpu
        /\ tick.snapshot = {2} => tick.gpu = {}
        /\ 4 \notin tick.gpu

ClassifierResultWitness ==
    /\ "gpu" \in DOMAIN tick
    /\ tick.snapshot = ClassifierPids
    /\ tick.unreadable = {2}
    /\ tick.gpu = {1, 3}

\* C16: no redundant stop: a tick that sees contention before the grace
\* period has elapsed, or finds the service inactive at the loop's test or
\* at the test inside the stop routine, issues no stop command, leaves
\* vllm_was_running as it was and keeps gpu_process_start_time.
NoRedundantStop ==
    TickOver /\ tick.class = "busy" /\ tick.act1 # "na"
      /\ (tick.ep_age < grace_period \/ tick.act1 = "no" \/ tick.act2 = "no")
      => /\ tick.nstop = 0
         /\ tick.nstart = 0
         /\ vllm_was_running = tick.flag0
         /\ gpu_process_start_time # None
         /\ pc = "sleep"

NoRedundantStopWitness ==
    /\ pc = "sleep"
    /\ tick.class = "busy"
    /\ tick.ep_age >= grace_period
    /\ tick.act1 = "yes"
    /\ tick.act2 = "no"
    /\ tick.q2 = "ok"
    /\ tick.nstop = 0
    /\ ~vllm_was_running

\* C17: a status query that fails counts as not active: the tick in which
\* it happens issues no stop command, leaves vllm_was_running as it was and
\* goes on to the closing sleep.
StatusQueryFailSafe ==
    TickOver /\ (tick.q1 = "error" \/ tick.q2 = "error") =>
        /\ tick.q1 = "error" => tick.act1 = "no" /\ tick.act2 = "na"
        /\ tick.q2 = "error" => tick.act2 = "no"
        /\ tick.nstop = 0
        /\ vllm_was_running = tick.flag0
        /\ pc = "sleep"

StatusQueryFailSafeWitness ==
    /\ pc = "sleep"
    /\ svc_active
    /\ tick.q1 = "ok"
    /\ tick.act1 = "yes"
    /\ tick.q2 = "error"
    /\ tick.nstop = 0

\* C18: contention ends before action: an empty tick with
\* gpu_process_start_time set and vllm_was_running false clears the
\* timestamp and issues no stop, no start and no settle sleep.
ContentionEndsBeforeAction ==
    /\ pc \in {"settle", "start"} => tick.flag0
    /\ TickOver /\ tick.class = "empty" /\ tick.open0 /\ ~tick.flag0 =>
         /\ gpu_process_start_time = None
         /\ ~vllm_was_running
         /\ tick.nstop = 0
         /\ tick.nstart = 0
         /\ tick.slept = 0
         /\ pc = "sleep"

ContentionEndsBeforeActionWitness ==
    /\ pc = "sleep"
    /\ tick.class = "empty"
    /\ tick.open0
    /\ ~tick.flag0
    /\ gpu_process_start_time = None
    /\ tick.nstart = 0
    /\ svc_active

\* C19: start is guarded by the flag: every start command, from the loop
\* or from the cleanup, is issued with vllm_was_running true.
StartGuardedByFlag ==
    /\ tick.nstart > 0 => tick.cmd_flag /\ tick.flag0
    /\ cleanup.nstart > 0 => cleanup.owed = "yes"

StartGuardedByFlagWitness ==
    /\ pc = "done"
    /\ exit_cause = "cancel"
    /\ cleanup.owed = "yes"
    /\ cleanup.nstart = 1
    /\ cleanup.res = "ok"
    /\ ~vllm_was_running

\* C20: no resume during observed contention: inside the loop a start
\* command is issued only in a tick that classified empty and found
\* gpu_process_start_time set; a tick that classified non-empty issues none.
NoResumeDuringContention ==
    /\ pc \in {"settle", "start"} => tick.class = "empty" /\ tick.open0
    /\ tick.nstart > 0 => tick.class = "empty" /\ tick.open0
    /\ tick.class = "busy" => tick.nstart = 0 /\ tick.slept = 0

NoResumeDuringContentionWitness ==
    /\ pc = "sleep"
    /\ tick.class = "empty"
    /\ tick.open0
    /\ tick.nstart = 1
    /\ tick.res = "fail"
    /\ vllm_was_running

====
